---- MODULE Spec2Model ----
(***************************************************************************)
(* A model of the zero-copy decoding core of ttf-parser:                   *)
(*   src/src/parser.rs  FromData, LazyArray, LazyArrayIter, TrySlice,      *)
(*                      Stream                                             *)
(*   src/src/loca.rs    Font::glyph_range                                  *)
(*                                                                         *)
(* Machine integers keep their width.  A usize (64-bit target) does not    *)
(* fit a TLC integer, so a usize is held as four 16-bit limbs, least       *)
(* significant first; u16 and in-range u32 values are plain integers.      *)
(* `+` and `+=` on machine integers panic on overflow when the build has   *)
(* overflow checks (debug profile) and wrap when it has not (release       *)
(* profile); overflowChecks is the build a run is of.                      *)
(***************************************************************************)
EXTENDS Integers, Sequences, FiniteSets, TLC

VARIABLES
    overflowChecks,  \* the build profile: TRUE = overflow checks on
    sdata,           \* Stream.data
    soffset,         \* Stream.offset (usize, as limbs)
    sop,             \* the Stream operation last called, with its arguments
    sres,            \* what that operation returned
    glyphId,         \* glyph_range's glyph_id
    numGlyphs,       \* Font::number_of_glyphs()
    locaFormat,      \* Font::index_to_location_format(): "Short" or "Long"
    loca,            \* Font.loca: the offsets buffer, if the font has one
    lres,            \* what glyph_range returned
    adata,           \* LazyArray.data
    awidth,          \* T::SIZE of the LazyArray's element type
    aop,             \* the LazyArray / LazyArrayIter operation last called
    ares,            \* what that operation returned
    itIndex,         \* LazyArrayIter.index
    btarget,         \* binary_search's x
    bmode,           \* "ord": binary_search(x); "any": binary_search_by(f), any f
    bpc,             \* where binary_search_by is: "call", "loop", "done"
    bsize,           \* binary_search_by's size
    bbase,           \* binary_search_by's base
    bprobes,         \* the indices binary_search_by has passed to at()
    bcalls,          \* how many times it has called the comparator
    bres             \* what binary_search_by returned

svars == <<sdata, soffset, sop, sres>>
lvars == <<glyphId, numGlyphs, locaFormat, loca, lres>>
avars == <<adata, awidth, aop, ares, itIndex>>
bvars == <<btarget, bmode, bpc, bsize, bbase, bprobes, bcalls, bres>>
vars == <<overflowChecks, svars, lvars, avars, bvars>>

(***************************************************************************)
(* Bounds of the model.                                                    *)
(***************************************************************************)
MaxBufLen == 4
MaxLocaLen == 8
MaxGlyphs == 3
MaxViewLen == 4
MaxIter == 5

\* Byte values the buffers of the Stream runs are made of.
StreamBytes == {0, 1, 64}

\* FromData::SIZE of the scalar types: u8/i8, u16/i16/F2DOT14/Offset16,
\* U24, u32/i32/Fixed/Offset32.
ScalarSizes == {1, 2, 3, 4}

RECURSIVE SeqsUpTo(_, _)
SeqsUpTo(S, n) ==
    IF n = 0 THEN {<<>>}
    ELSE LET shorter == SeqsUpTo(S, n - 1)
         IN  shorter \cup {Append(s, b) : s \in {t \in shorter : Len(t) = n - 1}, b \in S}

(***************************************************************************)
(* usize arithmetic on limbs.                                              *)
(***************************************************************************)
LimbBase == 256 * 256

ToWide(x) == <<x % LimbBase, x \div LimbBase, 0, 0>>

Zero == ToWide(0)

UsizeMax == <<LimbBase - 1, LimbBase - 1, LimbBase - 1, LimbBase - 1>>

\* a + b with the carry out of the top limb
WAdd(a, b) ==
    LET s1 == a[1] + b[1]
        s2 == a[2] + b[2] + (s1 \div LimbBase)
        s3 == a[3] + b[3] + (s2 \div LimbBase)
        s4 == a[4] + b[4] + (s3 \div LimbBase)
    IN  [val   |-> <<s1 % LimbBase, s2 % LimbBase, s3 % LimbBase, s4 % LimbBase>>,
         carry |-> s4 \div LimbBase]

\* a * k with the carry out of the top limb
WMul(a, k) ==
    LET p1 == a[1] * k
        p2 == a[2] * k + (p1 \div LimbBase)
        p3 == a[3] * k + (p2 \div LimbBase)
        p4 == a[4] * k + (p3 \div LimbBase)
    IN  [val   |-> <<p1 % LimbBase, p2 % LimbBase, p3 % LimbBase, p4 % LimbBase>>,
         carry |-> p4 \div LimbBase]

WLe(a, b) ==
    \/ a[4] < b[4]
    \/ a[4] = b[4] /\ a[3] < b[3]
    \/ a[4] = b[4] /\ a[3] = b[3] /\ a[2] < b[2]
    \/ a[4] = b[4] /\ a[3] = b[3] /\ a[2] = b[2] /\ a[1] <= b[1]

\* the value fits a TLC integer
WFits(a) == a[4] = 0 /\ a[3] = 0 /\ a[2] < 128 * 256

WInt(a) == a[2] * LimbBase + a[1]

\* `x as u32` of a usize
AsU32(a) == <<a[1], a[2], 0, 0>>

\* usize `a + b` / `a += b`: the build decides what an overflow does
UsizeAdd(a, b, checks) ==
    LET s == WAdd(a, b)
    IN  [val |-> s.val, panic |-> checks /\ s.carry > 0]

UsizeMul(a, k, checks) ==
    LET p == WMul(a, k)
    IN  [val |-> p.val, panic |-> checks /\ p.carry > 0]

(***************************************************************************)
(* Results.                                                                *)
(***************************************************************************)
NoBytes == <<>>

Ok(bytes, val) == [kind |-> "Ok", err |-> "", bytes |-> bytes, val |-> val]
\* a usize result, in limbs
OkUsize(o)     == [kind |-> "Ok", err |-> "", bytes |-> o, val |-> -1]
Err(e)         == [kind |-> "Err", err |-> e, bytes |-> NoBytes, val |-> -1]
Panic          == [kind |-> "Panic", err |-> "", bytes |-> NoBytes, val |-> -1]
Unit           == [kind |-> "Unit", err |-> "", bytes |-> NoBytes, val |-> -1]
Idle           == [kind |-> "Idle", err |-> "", bytes |-> NoBytes, val |-> -1]

\* a Stream operation called and its arguments: the element width, the
\* count or length, the offset argument (read_at only; Zero otherwise)
Op(name, w, n, at) == [name |-> name, w |-> w, n |-> n, at |-> at]

NoOp == Op("new", 0, 0, Zero)

(***************************************************************************)
(* FromData::parse: big-endian, over a slice of exactly SIZE bytes.        *)
(***************************************************************************)
RECURSIVE BigEndian(_)
BigEndian(bytes) ==
    IF bytes = <<>> THEN 0
    ELSE BigEndian(SubSeq(bytes, 1, Len(bytes) - 1)) * 256 + bytes[Len(bytes)]

Parse(bytes) == BigEndian(bytes)

(***************************************************************************)
(* TrySlice::try_slice: slice.get(start..end), None when start > end or    *)
(* end > len.                                                              *)
(***************************************************************************)
TrySlice(data, start, end) ==
    IF WLe(start, end) /\ WLe(end, ToWide(Len(data)))
    THEN Ok(SubSeq(data, WInt(start) + 1, WInt(end)), -1)
    ELSE Err("SliceOutOfBounds")

(***************************************************************************)
(* Stream (parser.rs 289-392).  Each operator takes the stream's fields    *)
(* and returns the new offset and the operation's result.                  *)
(***************************************************************************)
\* Stream::read / Stream::read_at: offset += SIZE, try_slice, parse
Read(data, off, w, checks) ==
    LET end == UsizeAdd(off, ToWide(w), checks)
        sl  == TrySlice(data, off, end.val)
    IN  IF end.panic THEN [off |-> off, res |-> Panic]
        ELSE [off |-> end.val,
              res |-> IF sl.kind = "Ok" THEN Ok(sl.bytes, Parse(sl.bytes)) ELSE sl]

\* Stream::try_read: as read, then T::try_parse, which may reject the bytes
TryRead(data, off, w, valid, checks) ==
    LET r == Read(data, off, w, checks)
    IN  IF r.res.kind = "Ok" /\ ~valid THEN [off |-> r.off, res |-> Err("TryParse")]
        ELSE r

\* Stream::read_bytes: offset += len, try_slice(offset..offset + len)
ReadBytes(data, off, len, checks) ==
    LET end == UsizeAdd(off, len, checks)
    IN  IF end.panic THEN [off |-> off, res |-> Panic]
        ELSE [off |-> end.val, res |-> TrySlice(data, off, end.val)]

\* Stream::read_array: len * SIZE, `as u32`, read_bytes, LazyArray::new
ReadArray(data, off, count, w, checks) ==
    LET len == UsizeMul(ToWide(count), w, checks)
    IN  IF len.panic THEN [off |-> off, res |-> Panic]
        ELSE ReadBytes(data, off, AsU32(len.val), checks)

\* Stream::read_array16 / read_array32: read the count, then read_array
ReadArrayPrefixed(data, off, cw, w, checks) ==
    LET c == Read(data, off, cw, checks)
    IN  IF c.res.kind # "Ok" THEN c
        ELSE ReadArray(data, c.off, c.res.val, w, checks)

\* Stream::skip / Stream::advance: offset += n
Advance(off, n, checks) ==
    LET end == UsizeAdd(off, ToWide(n), checks)
    IN  IF end.panic THEN [off |-> off, res |-> Panic]
        ELSE [off |-> end.val, res |-> Unit]

\* Stream::tail
StreamTail(data, off) == TrySlice(data, off, ToWide(Len(data)))

\* Stream::at_end
AtEnd(data, off) == off = ToWide(Len(data))

(***************************************************************************)
(* LazyArray (parser.rs 141-189): a view is its byte slice and T::SIZE.    *)
(***************************************************************************)
Some(v) == [kind |-> "Some", err |-> "", bytes |-> NoBytes, val |-> v]
None    == [kind |-> "None", err |-> "", bytes |-> NoBytes, val |-> -1]

\* a len that counts a partial trailing element
LALenRoundedUp(data, w) == (Len(data) + w - 1) \div w

\* LazyArray::len
LALen(data, w) == Len(data) \div w

\* LazyArray::is_empty
LAIsEmpty(data, w) == LALen(data, w) = 0

\* &self.data[start..end]: panics unless start <= end <= data.len()
Index(data, start, end) ==
    IF start <= end /\ end <= Len(data)
    THEN Ok(SubSeq(data, start + 1, end), -1)
    ELSE Panic

\* LazyArray::at: the unchecked access
LAAt(data, w, index) ==
    LET start == index * w
        end   == start + w
        sl    == Index(data, start, end)
    IN  IF sl.kind = "Ok" THEN Some(Parse(sl.bytes)) ELSE Panic

\* LazyArray::get: the checked access
LAGet(data, w, index) ==
    IF index < LALen(data, w) THEN LAAt(data, w, index) ELSE None

\* LazyArray::last
LALast(data, w) ==
    IF ~LAIsEmpty(data, w)
    THEN LAGet(data, w, WInt(AsU32(ToWide(LALen(data, w)))) - 1)
    ELSE None

(***************************************************************************)
(* LazyArray::binary_search / binary_search_by (parser.rs 191-227).        *)
(***************************************************************************)
Orderings == {"Less", "Equal", "Greater"}

\* Ord::cmp of two unsigned elements
Cmp(p, x) == IF p < x THEN "Less" ELSE IF p = x THEN "Equal" ELSE "Greater"

\* a binary_search_by that has no early return for an empty view
NeverEmpty(size) == FALSE

\* parser.rs 207: if size == 0 { return None; }
SizeIsZero(size) == size = 0

\* parser.rs 213
Half(size) == size \div 2

\* parser.rs 214
Mid(base, half) == base + half

\* a binary_search_by that keeps the lower half on Equal
NextBaseOnLessOnly(cmp, base, mid) == IF cmp = "Less" THEN mid ELSE base

\* parser.rs 219
NextBase(cmp, base, mid) == IF cmp = "Greater" THEN base ELSE mid

\* parser.rs 226
Found(cmp, value) == IF cmp = "Equal" THEN Some(value) ELSE None

(***************************************************************************)
(* LazyArrayIter (parser.rs 236-268).                                      *)
(***************************************************************************)
\* Iterator::next: index += 1, get(index - 1)
IterNext(data, w, index) ==
    [index |-> index + 1, res |-> LAGet(data, w, (index + 1) - 1)]

\* Iterator::nth: get(n as u32); the index is not touched
IterNth(data, w, index, n) ==
    [index |-> index, res |-> LAGet(data, w, WInt(AsU32(ToWide(n))))]

(***************************************************************************)
(* Font::glyph_range (loca.rs 8-54).                                       *)
(***************************************************************************)
U16Max == 65535

\* u16 `a + b`: the build decides what an overflow does
U16Add(a, b, checks) ==
    [val |-> (a + b) % (U16Max + 1), panic |-> checks /\ a + b > U16Max]

Absent        == [kind |-> "Absent", err |-> "", start |-> 0, end |-> 0]
Range(s, e)   == [kind |-> "Range", err |-> "", start |-> s, end |-> e]
Failure(e)    == [kind |-> "Err", err |-> e, start |-> 0, end |-> 0]
Crash         == [kind |-> "Panic", err |-> "", start |-> 0, end |-> 0]
Pending       == [kind |-> "Pending", err |-> "", start |-> 0, end |-> 0]

\* a glyph_range that takes no value for a sentinel
NeverSentinel(v) == FALSE

\* loca.rs 13, 18: the sentinel checks
IsSentinel(v) == v = U16Max

\* a glyph_range that compares with > where the code has >=
PastLastGlyphStrict(next, total) == next > total

\* loca.rs 25: the glyph id is past the last glyph
PastLastGlyph(next, total) == next >= total

\* a glyph_range that forgets to double a short entry
ShortOffsetNotDoubled(v) == v

\* loca.rs 35: 'The actual local offset divided by 2 is stored.'
ShortOffset(v) == v * 2

\* loca.rs 39
LongOffset(v) == v

\* loca.rs 44-52
CheckRange(start, end) ==
    IF start = end THEN Absent
    ELSE IF start > end THEN Absent
    ELSE Range(start, end)

\* loca.rs 31-41: the two entries of a glyph, out of a view of `total`
\* entries read at the start of the buffer
EntryPair(data, w, total, gid, checks) ==
    LET arr  == ReadArray(data, Zero, total, w, checks).res
        next == U16Add(gid, 1, checks)
        e0   == LAAt(arr.bytes, w, gid)
        e1   == LAAt(arr.bytes, w, next.val)
    IN  IF arr.kind = "Panic" THEN Crash
        ELSE IF arr.kind = "Err" THEN Failure(arr.err)
        ELSE IF e0.kind = "Panic" \/ next.panic THEN Crash
        ELSE IF e1.kind = "Panic" THEN Crash
        ELSE IF w = 2 THEN CheckRange(ShortOffset(e0.val), ShortOffset(e1.val))
        ELSE CheckRange(LongOffset(e0.val), LongOffset(e1.val))

GlyphRange(gid, n, format, table, checks) ==
    IF IsSentinel(n) THEN Absent
    ELSE IF IsSentinel(gid) THEN Absent
    ELSE LET total == U16Add(n, 1, checks)
             next  == U16Add(gid, 1, checks)
         IN  IF total.panic THEN Crash
             ELSE IF next.panic THEN Crash
             ELSE IF PastLastGlyph(next.val, total.val) THEN Absent
             ELSE IF ~table.present THEN Failure("NoneError")
             ELSE EntryPair(table.data, IF format = "Short" THEN 2 ELSE 4,
                            total.val, gid, checks)

(***************************************************************************)
(* The glyph_range runs: a font's glyph count, format and loca buffer, a   *)
(* glyph id, and one call.                                                 *)
(***************************************************************************)
LocaBytes == {0, 5}

GlyphNumbers == 0..MaxGlyphs \cup {U16Max - 1, U16Max}

NoTable == [present |-> FALSE, data |-> <<>>]

Tables == {NoTable} \cup {[present |-> TRUE, data |-> d] : d \in SeqsUpTo(LocaBytes, MaxLocaLen)}

LocaIdle ==
    /\ glyphId = 0
    /\ numGlyphs = 0
    /\ locaFormat = "Short"
    /\ loca = NoTable
    /\ lres = Pending

StreamIdle ==
    /\ sdata = <<>>
    /\ soffset = Zero
    /\ sop = NoOp
    /\ sres = Idle

AOp(name, index) == [name |-> name, index |-> index]

ArrayIdle ==
    /\ adata = <<>>
    /\ awidth = 1
    /\ aop = AOp("new", 0)
    /\ ares = Idle
    /\ itIndex = 0

SearchIdle ==
    /\ btarget = 0
    /\ bmode = "ord"
    /\ bpc = "call"
    /\ bsize = 0
    /\ bbase = 0
    /\ bprobes = <<>>
    /\ bcalls = 0
    /\ bres = Idle

LInit ==
    /\ overflowChecks \in BOOLEAN
    /\ glyphId \in GlyphNumbers
    /\ numGlyphs \in GlyphNumbers
    /\ locaFormat \in {"Short", "Long"}
    /\ loca \in Tables
    /\ lres = Pending
    /\ StreamIdle
    /\ ArrayIdle
    /\ SearchIdle

LGlyphRange ==
    /\ lres = Pending
    /\ lres' = GlyphRange(glyphId, numGlyphs, locaFormat, loca, overflowChecks)
    /\ UNCHANGED <<overflowChecks, glyphId, numGlyphs, locaFormat, loca, svars, avars, bvars>>

LNext == LGlyphRange

SpecLoca == LInit /\ [][LNext]_vars

(***************************************************************************)
(* The Stream runs: one Stream over one buffer, any operation next.        *)
(***************************************************************************)
MaxOffset == MaxBufLen + 2

TopOffsets == {<<LimbBase - 1 - k, LimbBase - 1, LimbBase - 1, LimbBase - 1>> : k \in 0..1}

\* offsets Stream::new / Stream::new_at start a run at
StartOffsets == {ToWide(k) : k \in {0, 1, MaxBufLen + 1}} \cup TopOffsets

\* offset arguments of read_at
AtArgs == {ToWide(0), ToWide(1), ToWide(MaxBufLen), UsizeMax}

\* arguments of read_bytes and advance
LenArgs == 0..3

\* arguments of read_array (u16 or u32 counts)
CountArgs == {0, 1, 2, 64 * 256 * 256 * 256}

\* the run goes on: no panic so far, and the offset within the model's range
SLive ==
    /\ sres.kind # "Panic"
    /\ \/ soffset \in TopOffsets
       \/ WFits(soffset) /\ WInt(soffset) <= MaxOffset

SInit ==
    /\ overflowChecks \in BOOLEAN
    /\ sdata \in SeqsUpTo(StreamBytes, MaxBufLen)
    /\ soffset \in StartOffsets
    /\ sop = NoOp
    /\ sres = Idle
    /\ LocaIdle
    /\ ArrayIdle
    /\ SearchIdle

SStep(op, r) ==
    /\ soffset' = r.off
    /\ sop' = op
    /\ sres' = r.res
    /\ UNCHANGED <<overflowChecks, sdata, lvars, avars, bvars>>

SRead ==
    \E w \in ScalarSizes :
        SLive /\ SStep(Op("read", w, 0, Zero), Read(sdata, soffset, w, overflowChecks))

STryRead ==
    \E w \in ScalarSizes, valid \in BOOLEAN :
        SLive /\ SStep(Op("try_read", w, 0, Zero),
                       TryRead(sdata, soffset, w, valid, overflowChecks))

\* read_at is an associated function: it takes its own offset, by value
SReadAt ==
    \E w \in ScalarSizes, at \in AtArgs :
        SLive /\ SStep(Op("read_at", w, 0, at),
                       [off |-> soffset, res |-> Read(sdata, at, w, overflowChecks).res])

SReadBytes ==
    \E n \in LenArgs :
        SLive /\ SStep(Op("read_bytes", 1, n, Zero),
                       ReadBytes(sdata, soffset, ToWide(n), overflowChecks))

SReadArray ==
    \E w \in ScalarSizes, c \in CountArgs :
        SLive /\ SStep(Op("read_array", w, c, Zero),
                       ReadArray(sdata, soffset, c, w, overflowChecks))

SReadArray16 ==
    \E w \in ScalarSizes :
        SLive /\ SStep(Op("read_array16", w, 0, Zero),
                       ReadArrayPrefixed(sdata, soffset, 2, w, overflowChecks))

SReadArray32 ==
    \E w \in ScalarSizes :
        SLive /\ SStep(Op("read_array32", w, 0, Zero),
                       ReadArrayPrefixed(sdata, soffset, 4, w, overflowChecks))

SSkip ==
    \E w \in ScalarSizes :
        SLive /\ SStep(Op("skip", w, 0, Zero), Advance(soffset, w, overflowChecks))

SAdvance ==
    \E n \in LenArgs :
        SLive /\ SStep(Op("advance", 1, n, Zero), Advance(soffset, n, overflowChecks))

STail ==
    SLive /\ SStep(Op("tail", 0, 0, Zero), [off |-> soffset, res |-> StreamTail(sdata, soffset)])

SAtEnd ==
    SLive /\ SStep(Op("at_end", 0, 0, Zero),
                   [off |-> soffset,
                    res |-> Ok(NoBytes, IF AtEnd(sdata, soffset) THEN 1 ELSE 0)])

SOffset ==
    SLive /\ SStep(Op("offset", 0, 0, Zero), [off |-> soffset, res |-> OkUsize(soffset)])

SNext ==
    \/ SRead
    \/ STryRead
    \/ SReadAt
    \/ SReadBytes
    \/ SReadArray
    \/ SReadArray16
    \/ SReadArray32
    \/ SSkip
    \/ SAdvance
    \/ STail
    \/ SAtEnd
    \/ SOffset

SpecStream == SInit /\ [][SNext]_vars

(***************************************************************************)
(* The LazyArray runs: one view, any of its operations next, and one       *)
(* iterator over it at a time.                                             *)
(***************************************************************************)
ViewBytes == {0, 1, 2}

IndexArgs == 0..(MaxViewLen + 1)

AInit ==
    /\ overflowChecks \in BOOLEAN
    /\ adata \in SeqsUpTo(ViewBytes, MaxViewLen)
    /\ awidth \in ScalarSizes
    /\ aop = AOp("new", 0)
    /\ ares = Idle
    /\ itIndex = 0
    /\ StreamIdle
    /\ LocaIdle
    /\ SearchIdle

\* the run goes on: no call has panicked
ALive == ares.kind # "Panic"

AStep(op, r, index) ==
    /\ aop' = op
    /\ ares' = r
    /\ itIndex' = index
    /\ UNCHANGED <<overflowChecks, adata, awidth, svars, lvars, bvars>>

ALen == ALive /\ AStep(AOp("len", 0), Ok(NoBytes, LALen(adata, awidth)), itIndex)

AIsEmpty ==
    ALive /\ AStep(AOp("is_empty", 0),
                   Ok(NoBytes, IF LAIsEmpty(adata, awidth) THEN 1 ELSE 0), itIndex)

AAt == \E i \in IndexArgs : ALive /\ AStep(AOp("at", i), LAAt(adata, awidth, i), itIndex)

AGet == \E i \in IndexArgs : ALive /\ AStep(AOp("get", i), LAGet(adata, awidth, i), itIndex)

ALast == ALive /\ AStep(AOp("last", 0), LALast(adata, awidth), itIndex)

\* IntoIterator::into_iter: a new iterator, index 0
AIntoIter == ALive /\ AStep(AOp("into_iter", 0), Unit, 0)

ANext ==
    LET r == IterNext(adata, awidth, itIndex)
    IN  ALive /\ itIndex < MaxIter /\ AStep(AOp("next", 0), r.res, r.index)

ANth ==
    \E k \in IndexArgs :
        LET r == IterNth(adata, awidth, itIndex, k)
        IN  ALive /\ AStep(AOp("nth", k), r.res, r.index)

ArrayNext ==
    \/ ALen
    \/ AIsEmpty
    \/ AAt
    \/ AGet
    \/ ALast
    \/ AIntoIter
    \/ ANext
    \/ ANth

SpecArray == AInit /\ [][ArrayNext]_vars

(***************************************************************************)
(* The binary search runs: one view, one call of binary_search(x) or of    *)
(* binary_search_by(f), a step at a time.  In an "any" run the comparator  *)
(* answers anything.                                                       *)
(***************************************************************************)
SearchBytes == {2, 4, 7}

Targets == {2, 4, 5, 7, 2 * 256 + 4}

Answers(value) == IF bmode = "ord" THEN {Cmp(value, btarget)} ELSE Orderings

BInit ==
    /\ overflowChecks \in BOOLEAN
    /\ adata \in SeqsUpTo(SearchBytes, MaxViewLen)
    /\ awidth \in {1, 2}
    /\ aop = AOp("new", 0)
    /\ ares = Idle
    /\ itIndex = 0
    /\ btarget \in Targets
    /\ bmode \in {"ord", "any"}
    /\ bpc = "call"
    /\ bsize = 0
    /\ bbase = 0
    /\ bprobes = <<>>
    /\ bcalls = 0
    /\ bres = Idle
    /\ StreamIdle
    /\ LocaIdle

BFrame == UNCHANGED <<overflowChecks, svars, lvars, avars, btarget, bmode>>

\* parser.rs 206-211
BBegin ==
    /\ bpc = "call"
    /\ bsize' = WInt(AsU32(ToWide(LALen(adata, awidth))))
    /\ bbase' = 0
    /\ IF SizeIsZero(bsize')
       THEN bpc' = "done" /\ bres' = None
       ELSE bpc' = "loop" /\ bres' = bres
    /\ UNCHANGED <<bprobes, bcalls>>
    /\ BFrame

\* parser.rs 212-221: one turn of `while size > 1`
BProbe ==
    /\ bpc = "loop"
    /\ bsize > 1
    /\ LET half == Half(bsize)
           mid  == Mid(bbase, half)
           elem == LAAt(adata, awidth, mid)
       IN  /\ bprobes' = Append(bprobes, mid)
           /\ IF elem.kind = "Panic"
              THEN /\ bpc' = "done"
                   /\ bres' = Panic
                   /\ UNCHANGED <<bbase, bsize, bcalls>>
              ELSE \E cmp \in Answers(elem.val) :
                       /\ bbase' = NextBase(cmp, bbase, mid)
                       /\ bsize' = bsize - half
                       /\ bcalls' = bcalls + 1
                       /\ UNCHANGED <<bpc, bres>>
    /\ BFrame

\* parser.rs 223-226
BFinal ==
    /\ bpc = "loop"
    /\ ~(bsize > 1)
    /\ LET elem == LAAt(adata, awidth, bbase)
       IN  /\ bprobes' = Append(bprobes, bbase)
           /\ bpc' = "done"
           /\ IF elem.kind = "Panic"
              THEN bres' = Panic /\ bcalls' = bcalls
              ELSE \E cmp \in Answers(elem.val) :
                       /\ bres' = Found(cmp, elem.val)
                       /\ bcalls' = bcalls + 1
    /\ UNCHANGED <<bbase, bsize>>
    /\ BFrame

SearchNext ==
    \/ BBegin
    \/ BProbe
    \/ BFinal

SpecSearch == BInit /\ [][SearchNext]_vars

(***************************************************************************)
(* Claims about Stream, checked under SpecStream.                          *)
(***************************************************************************)
\* the mathematical o + w <= n, for a usize o
WithinBuffer(o, w, n) == WFits(o) /\ WInt(o) <= n /\ w <= n - WInt(o)

C1Step ==
    sop'.name \in {"read", "try_read", "read_at", "read_bytes"} =>
        LET o == IF sop'.name = "read_at" THEN sop'.at ELSE soffset
            w == IF sop'.name = "read_bytes" THEN sop'.n ELSE sop'.w
        IN  /\ sres'.kind # "Panic"
            /\ sres'.kind = "Ok" =>
                   /\ WithinBuffer(o, w, Len(sdata))
                   /\ sres'.bytes = SubSeq(sdata, WInt(o) + 1, WInt(o) + w)
            /\ ~WithinBuffer(o, w, Len(sdata)) => sres' = Err("SliceOutOfBounds")

\* C1: a bounds-checked read (read, try_read, read_at, read_bytes) at offset
\* o of width w over a buffer of length N succeeds only if o + w <= N, and
\* then yields exactly buffer[o .. o+w); whenever o + w > N it returns
\* Error::SliceOutOfBounds; it never panics.
C1_ReadsAreBoundsChecked == [][C1Step]_vars

\* read_array::<T>(c) at offset o, T::SIZE = w, as the claim states it
C2Array(o, c, w) ==
    LET fits == WFits(o) /\ WInt(o) <= Len(sdata) /\ c <= (Len(sdata) - WInt(o)) \div w
    IN  /\ sres'.kind \in {"Ok", "Err"}
        /\ sres'.kind = "Ok" <=> fits
        /\ sres'.kind = "Err" => sres'.err = "SliceOutOfBounds"
        /\ sres'.kind = "Ok" =>
               /\ Len(sres'.bytes) \div w = c
               /\ sres'.bytes = SubSeq(sdata, WInt(o) + 1, WInt(o) + c * w)
               /\ soffset' = ToWide(WInt(o) + c * w)

C2Prefixed(pw) ==
    IF WithinBuffer(soffset, pw, Len(sdata))
    THEN C2Array(ToWide(WInt(soffset) + pw),
                 BigEndian(SubSeq(sdata, WInt(soffset) + 1, WInt(soffset) + pw)),
                 sop'.w)
    ELSE sres' = Err("SliceOutOfBounds")

C2Step ==
    /\ sop'.name = "read_array" => C2Array(soffset, sop'.n, sop'.w)
    /\ sop'.name = "read_array16" => C2Prefixed(2)
    /\ sop'.name = "read_array32" => C2Prefixed(4)

\* C2: read_array::<T>(c) at offset o succeeds iff o + c*w <= N, and then
\* returns a view of exactly c elements over buffer[o .. o + c*w) and leaves
\* the cursor at o + c*w; otherwise it is a boundary failure.  read_array16
\* and read_array32 do the same with the big-endian count they read first.
C2_ReadArrayHasCountElements == [][C2Step]_vars

\* C9: no Stream operation ever decreases the cursor offset, and tail,
\* at_end and offset leave it unchanged.
C9_OffsetNeverDecreases ==
    [][/\ WLe(soffset, soffset')
       /\ sop'.name \in {"tail", "at_end", "offset"} => soffset' = soffset]_vars

(***************************************************************************)
(* Claims about glyph_range, checked under SpecLoca.                       *)
(***************************************************************************)
EntryWidth == IF locaFormat = "Short" THEN 2 ELSE 4

\* entry i of the offsets buffer, read off the bytes
Entry(i) == BigEndian(SubSeq(loca.data, i * EntryWidth + 1, (i + 1) * EntryWidth))

EntryOffset(i) == IF locaFormat = "Short" THEN 2 * Entry(i) ELSE Entry(i)

\* C3: for a glyph count n # 0xFFFF, a glyph id g < n and an offsets buffer
\* of at least n+1 entries, glyph_range(g) is start..end when start < end and
\* absent otherwise, where start and end are entries g and g+1, doubled
\* under the short encoding.
C3_RangeFromAdjacentEntries ==
    (/\ lres # Pending
     /\ numGlyphs # U16Max
     /\ glyphId < numGlyphs
     /\ loca.present
     /\ Len(loca.data) >= (numGlyphs + 1) * EntryWidth)
    => lres = IF EntryOffset(glyphId) < EntryOffset(glyphId + 1)
              THEN Range(EntryOffset(glyphId), EntryOffset(glyphId + 1))
              ELSE Absent

\* n = 3, short entries [0,0,5,5], glyph 1 -> 0..10
C3_Witness ==
    /\ numGlyphs = 3
    /\ glyphId = 1
    /\ locaFormat = "Short"
    /\ loca = [present |-> TRUE, data |-> <<0, 0, 0, 0, 0, 5, 0, 5>>]
    /\ lres = Range(0, 10)

\* C4: glyph_range is absent, not a failure, when the glyph count is 0xFFFF,
\* when the glyph id is 0xFFFF, and when the glyph id is not below the glyph
\* count, whatever the offsets buffer (missing, empty, too short) and the
\* encoding are.
C4_AbsentBeforeTheBufferIsRead ==
    (/\ lres # Pending
     /\ \/ numGlyphs = U16Max
        \/ glyphId = U16Max
        \/ glyphId >= numGlyphs)
    => lres = Absent

\* glyph id = glyph count = 0 and no offsets buffer at all
C4_Witness ==
    /\ numGlyphs = 0
    /\ glyphId = 0
    /\ ~loca.present
    /\ lres = Absent

\* C5: glyph_range never panics, in either build, for any glyph id, glyph
\* count, encoding and offsets buffer; an offsets buffer shorter than
\* total * width bytes yields the boundary failure.
C5_GlyphRangeNeverPanics ==
    /\ lres.kind # "Panic"
    /\ (/\ lres # Pending
        /\ numGlyphs # U16Max
        /\ glyphId < numGlyphs
        /\ loca.present
        /\ Len(loca.data) < (numGlyphs + 1) * EntryWidth)
       => lres = Failure("SliceOutOfBounds")

\* the largest total, 0xFFFF entries of 4 bytes, in a build with overflow
\* checks, over a buffer that is too short
C5_Witness ==
    /\ overflowChecks
    /\ numGlyphs = U16Max - 1
    /\ glyphId = MaxGlyphs
    /\ locaFormat = "Long"
    /\ loca.present
    /\ lres = Failure("SliceOutOfBounds")

(***************************************************************************)
(* Claims about LazyArray and LazyArrayIter, checked under SpecArray and   *)
(* SpecSearch.                                                             *)
(***************************************************************************)
\* the view's length and elements, read off the bytes
ViewLen == Len(adata) \div awidth

Element(i) == BigEndian(SubSeq(adata, i * awidth + 1, i * awidth + awidth))

ElementOrAbsent(i) == IF i < ViewLen THEN Some(Element(i)) ELSE None

C10Step ==
    /\ aop'.name = "into_iter" => itIndex' = 0
    /\ aop'.name = "next" =>
           /\ ares' = ElementOrAbsent(itIndex)
           /\ itIndex' = itIndex + 1
    /\ aop'.name = "nth" =>
           /\ ares' = ElementOrAbsent(itIndex + aop'.index)
           /\ itIndex' = itIndex + aop'.index + 1

\* C10: an iterator yields the elements in index order, then absent; nth(k)
\* after m elements were consumed returns the element at m + k (absent if
\* m + k >= n) and leaves the iterator at m + k + 1; a new iterator starts
\* at index 0.
C10_IteratorInIndexOrder == [][C10Step]_vars

IsSorted == \A i \in 0..(ViewLen - 1), j \in 0..(ViewLen - 1) : i <= j => Element(i) <= Element(j)

C8_BinarySearchStaysInRange ==
    /\ bres.kind # "Panic"
    /\ \A k \in 1..Len(bprobes) : bprobes[k] < ViewLen
    /\ Len(bprobes) <= ViewLen
    /\ bpc = "loop" => (bsize >= 1 /\ bbase + bsize <= ViewLen)
    /\ bpc # "done" => ENABLED SearchNext
    /\ (bpc = "done" /\ ViewLen = 0) => (bres = None /\ bprobes = <<>> /\ bcalls = 0)

\* a finished search of an unsorted view of 4 elements by a comparator that
\* follows no order
C8_Witness ==
    /\ bmode = "any"
    /\ bpc = "done"
    /\ ~IsSorted
    /\ ViewLen = 4
    /\ Len(bprobes) = 3
    /\ bcalls = 3

====
